---- MODULE Spec2Model ----
(***************************************************************************)
(* MedLens: the analysis-normalisation layer (services/modelAdapter.ts),   *)
(* the upload flow (pages/UploadReport) and the report viewer              *)
(* (pages/ReportViewer) as a state machine.                                *)
(*                                                                         *)
(* JavaScript values that may be undefined are modelled as options: the    *)
(* empty tuple <<>> is undefined (the property is absent), <<v>> is the    *)
(* value v.  Confidences are counted in hundredths (80 is 0.8).            *)
(***************************************************************************)
EXTENDS Integers, Sequences, FiniteSets, TLC

VARIABLES
    rawData,      \* the raw model payload handed to mapModelResponseToApp
    normalized,   \* option: the AnalysisResult mapModelResponseToApp returned
    now,          \* the last value Date.now() returned to a handler
    localKey,     \* localStorage item MEDLENS_API_KEY (option)
    windowKey,    \* window.MEDLENS_API_KEY (option)
    envKey,       \* process.env.API_KEY (option)
    user,         \* store: the logged-in user (option)
    reports,      \* store: the reports
    route,        \* the page shown
    upload,       \* UploadReport component state
    viewer,       \* ReportViewer component state and its :id parameter
    calls,        \* analyzeMedicalImage invocations awaiting their answer
    returned      \* option: how the last function called on its own ended
                  \* (an event handler's return value is discarded)

normVars == <<rawData, normalized>>
keyVars == <<localKey, windowKey, envKey>>
appVars == <<now, user, reports, route, upload, viewer, calls>>
vars == <<rawData, normalized, now, localKey, windowKey, envKey, user, reports,
          route, upload, viewer, calls, returned>>

----------------------------------------------------------------------------
(* Bounds *)

MaxRegions == 2      \* longest highlights.regions_of_interest list
MaxArtifacts == 2    \* longest highlights.artifacts list
MaxReports == 2      \* reports created in one run (stored or being analysed)
MaxFeedback == 2     \* feedback records held by the store in one run

----------------------------------------------------------------------------
(* JavaScript values *)

Absent == <<>>
Some(v) == <<v>>

\* a || b on strings: undefined and "" are falsy
OrString(a, b) == IF a # Absent /\ a[1] # "" THEN a ELSE b

OrNumber_dropsDefault(a, b) == IF a # Absent /\ a[1] # 0 THEN a ELSE Absent
\* a || b on numbers: undefined and 0 are falsy
OrNumber(a, b) == IF a # Absent /\ a[1] # 0 THEN a ELSE b

\* a || b on arrays: only undefined is falsy, [] is truthy
OrArray(a, b) == IF a # Absent THEN a ELSE b

\* numbers as they come out of array indexing and subtraction
Num(n) == [t |-> "number", v |-> n]
NaN == [t |-> "NaN", v |-> 0]
Undefined == [t |-> "undefined", v |-> 0]

\* arr[i] with a 0-based index: undefined past the end
ArrayAt(arr, i) == IF i < Len(arr) THEN Num(arr[i + 1]) ELSE Undefined

\* a - b: NaN as soon as one side is undefined or NaN
Minus(a, b) == IF a.t = "number" /\ b.t = "number" THEN Num(a.v - b.v) ELSE NaN

----------------------------------------------------------------------------
(* Program constants *)

DefaultFindingConfidence == 80
DefaultOverallConfidence == 90
VisualPatternDetected == "Visual pattern detected."
ClassifiedText == "Classified based on visual features."
AnalysisComplete == "Analysis complete."

\* file_type?.replace('_', ' ').toUpperCase() inside the template string
FileTypeText(ft) ==
    IF ft = Absent THEN "undefined"
    ELSE CASE ft[1] = "xray" -> "XRAY"
           [] ft[1] = "lab_report" -> "LAB REPORT"
           [] ft[1] = "demo_simulation" -> "DEMO SIMULATION"
           [] OTHER -> "OTHER"

----------------------------------------------------------------------------
(* mapModelResponseToApp *)

bbox_swappedAxes(box) ==
    [ y |-> ArrayAt(box, 1),
      x |-> ArrayAt(box, 0),
      height |-> Minus(ArrayAt(box, 3), ArrayAt(box, 1)),
      width |-> Minus(ArrayAt(box, 2), ArrayAt(box, 0)) ]

bbox_reversedDifference(box) ==
    [ y |-> ArrayAt(box, 0),
      x |-> ArrayAt(box, 1),
      height |-> Minus(ArrayAt(box, 0), ArrayAt(box, 2)),
      width |-> Minus(ArrayAt(box, 1), ArrayAt(box, 3)) ]

\* the bbox literal built from item.box_2d
bbox(box) ==
    [ y |-> ArrayAt(box, 0),
      x |-> ArrayAt(box, 1),
      height |-> Minus(ArrayAt(box, 2), ArrayAt(box, 0)),
      width |-> Minus(ArrayAt(box, 3), ArrayAt(box, 1)) ]

\* item.box_2d ? [{...}] : []   (every array, even [], is truthy)
evidenceOf(item, fileId) ==
    IF item.box_2d # Absent
    THEN << [ fileId |-> fileId,
              confidence |-> OrNumber(item.confidence, Some(DefaultFindingConfidence)),
              source |-> "MODEL_VISION",
              bbox |-> bbox(item.box_2d[1]) ] >>
    ELSE <<>>

highlightFinding_englishFallsBack(item, category, data, fileId, t, rnd) ==
    [ id |-> <<"find", t, rnd>>,
      category |-> category,
      text |-> item.label \o ": " \o item.description,
      confidence |-> OrNumber(item.confidence, Some(DefaultFindingConfidence)),
      explanation |-> OrString(data.summary_student, Some(VisualPatternDetected)),
      explanationEn |-> OrString(data.summary_student_en,
                                 OrString(data.summary_student, Some(VisualPatternDetected))),
      suggestedActions |-> OrArray(data.recommendations_student, Some(<<>>)),
      icdCodes |-> Some(<<>>),
      evidence |-> evidenceOf(item, fileId),
      feedback |-> Absent ]

\* the object pushed by processHighlights for one item; rnd is the
\* Math.random() suffix drawn for its id
highlightFinding(item, category, data, fileId, t, rnd) ==
    [ id |-> <<"find", t, rnd>>,
      category |-> category,
      text |-> item.label \o ": " \o item.description,
      confidence |-> OrNumber(item.confidence, Some(DefaultFindingConfidence)),
      explanation |-> OrString(data.summary_student, Some(VisualPatternDetected)),
      explanationEn |-> OrString(data.summary_student_en, Some(VisualPatternDetected)),
      suggestedActions |-> OrArray(data.recommendations_student, Some(<<>>)),
      icdCodes |-> Some(<<>>),
      evidence |-> evidenceOf(item, fileId),
      feedback |-> Absent ]

\* processHighlights(items, category): pushes one finding per item onto
\* findings; rnds is the stream of Math.random() draws, consumed in order
processHighlights(findings, items, category, data, fileId, t, rnds) ==
    IF items = Absent THEN findings
    ELSE findings \o
         [ i \in 1..Len(items[1]) |->
             highlightFinding(items[1][i], category, data, fileId, t,
                              rnds[Len(findings) + i]) ]

\* data.highlights?.regions_of_interest and data.highlights?.artifacts
highlightList(data, key) ==
    IF data.highlights = Absent THEN Absent ELSE data.highlights[1][key]

\* the finding unshifted for the file type
fileTypeFinding(data, t) ==
    [ id |-> <<"ft", t>>,
      category |-> "Impression",
      text |-> "File Classification: " \o FileTypeText(data.file_type),
      confidence |-> OrNumber(data.confidence_overall, Some(DefaultOverallConfidence)),
      explanation |-> Some(ClassifiedText),
      explanationEn |-> Some(ClassifiedText),
      suggestedActions |-> Some(<<>>),
      icdCodes |-> Absent,
      evidence |-> <<>>,
      feedback |-> Absent ]

findingsOf_pushFileType(data, fileId, t, rnds) ==
    LET regions == processHighlights(<<>>, highlightList(data, "regions_of_interest"),
                                     "Finding", data, fileId, t, rnds)
        both == processHighlights(regions, highlightList(data, "artifacts"),
                                  "Finding", data, fileId, t, rnds)
    IN both \o <<fileTypeFinding(data, t)>>

findingsOf_artifactsFirst(data, fileId, t, rnds) ==
    LET artifacts == processHighlights(<<>>, highlightList(data, "artifacts"),
                                       "Finding", data, fileId, t, rnds)
        both == processHighlights(artifacts, highlightList(data, "regions_of_interest"),
                                  "Finding", data, fileId, t, rnds)
    IN <<fileTypeFinding(data, t)>> \o both

\* the findings array: regions, then artifacts, then the unshift
findingsOf(data, fileId, t, rnds) ==
    LET regions == processHighlights(<<>>, highlightList(data, "regions_of_interest"),
                                     "Finding", data, fileId, t, rnds)
        both == processHighlights(regions, highlightList(data, "artifacts"),
                                  "Finding", data, fileId, t, rnds)
    IN <<fileTypeFinding(data, t)>> \o both

englishSummary_noLocalized(en, loc) == OrString(en, Some(""))
\* data.summary_X_en || data.summary_X || ""
englishSummary(en, loc) == OrString(en, OrString(loc, Some("")))

\* data.recommendations_X_en || data.recommendations_X || []
englishRecommendations(en, loc) == OrArray(en, OrArray(loc, Some(<<>>)))

mapModelResponseToApp_noDefaultSummary(data, fileId, t, rnds) ==
    [ summary |-> OrString(data.summary_patient, Some("")),
      findings |-> findingsOf(data, fileId, t, rnds),
      summaryPatient |-> OrString(data.summary_patient, Some("")),
      summaryStudent |-> OrString(data.summary_student, Some("")),
      summaryDoctor |-> OrString(data.summary_doctor, Some("")),
      recommendationsPatient |-> OrArray(data.recommendations_patient, Some(<<>>)),
      recommendationsStudent |-> OrArray(data.recommendations_student, Some(<<>>)),
      recommendationsDoctor |-> OrArray(data.recommendations_doctor, Some(<<>>)),
      summaryPatientEn |-> englishSummary(data.summary_patient_en, data.summary_patient),
      summaryStudentEn |-> englishSummary(data.summary_student_en, data.summary_student),
      summaryDoctorEn |-> englishSummary(data.summary_doctor_en, data.summary_doctor),
      recommendationsPatientEn |->
          englishRecommendations(data.recommendations_patient_en, data.recommendations_patient),
      recommendationsStudentEn |->
          englishRecommendations(data.recommendations_student_en, data.recommendations_student),
      recommendationsDoctorEn |->
          englishRecommendations(data.recommendations_doctor_en, data.recommendations_doctor) ]

mapModelResponseToApp(data, fileId, t, rnds) ==
    [ summary |-> OrString(data.summary_patient, Some(AnalysisComplete)),
      findings |-> findingsOf(data, fileId, t, rnds),
      summaryPatient |-> OrString(data.summary_patient, Some("")),
      summaryStudent |-> OrString(data.summary_student, Some("")),
      summaryDoctor |-> OrString(data.summary_doctor, Some("")),
      recommendationsPatient |-> OrArray(data.recommendations_patient, Some(<<>>)),
      recommendationsStudent |-> OrArray(data.recommendations_student, Some(<<>>)),
      recommendationsDoctor |-> OrArray(data.recommendations_doctor, Some(<<>>)),
      summaryPatientEn |-> englishSummary(data.summary_patient_en, data.summary_patient),
      summaryStudentEn |-> englishSummary(data.summary_student_en, data.summary_student),
      summaryDoctorEn |-> englishSummary(data.summary_doctor_en, data.summary_doctor),
      recommendationsPatientEn |->
          englishRecommendations(data.recommendations_patient_en, data.recommendations_patient),
      recommendationsStudentEn |->
          englishRecommendations(data.recommendations_student_en, data.recommendations_student),
      recommendationsDoctorEn |->
          englishRecommendations(data.recommendations_doctor_en, data.recommendations_doctor) ]


----------------------------------------------------------------------------
(* Payloads the model can answer with *)

NoPayload ==
    [ file_type |-> Absent, confidence_overall |-> Absent, highlights |-> Absent,
      summary_patient |-> Absent, summary_student |-> Absent, summary_doctor |-> Absent,
      summary_patient_en |-> Absent, summary_student_en |-> Absent,
      summary_doctor_en |-> Absent,
      recommendations_patient |-> Absent, recommendations_student |-> Absent,
      recommendations_doctor |-> Absent,
      recommendations_patient_en |-> Absent, recommendations_student_en |-> Absent,
      recommendations_doctor_en |-> Absent ]

Item(label, description, confidence, box) ==
    [ label |-> label, description |-> description,
      confidence |-> confidence, box_2d |-> box ]

\* highlight entries: declared and missing confidences (0 and 1.5 included),
\* boxes that are missing, well formed, inverted, too short and too long
Items ==
    { Item("Nodule", "3mm opacity", Some(95), Some(<<10, 20, 30, 40>>)),
      Item("Opacity", "diffuse", Absent, Absent),
      Item("Effusion", "left base", Some(0), Some(<<30, 40, 10, 20>>)),
      Item("Marker", "lead marker", Some(150), Some(<<10, 20>>)),
      Item("Clip", "surgical clip", Absent, Some(<<1, 2, 3, 4, 5>>)) }

SeqsUpTo(S, n) == UNION { [1..k -> S] : k \in 0..n }

OptionOf(S) == {Absent} \cup { Some(v) : v \in S }

OverallConfidences == OptionOf({0, 50, 120})

Highlights ==
    OptionOf([ regions_of_interest : OptionOf(SeqsUpTo(Items, MaxRegions)),
               artifacts : OptionOf(SeqsUpTo(Items, MaxArtifacts)) ])

\* payloads that vary in what the findings are built from
FindingPayloads ==
    { [ NoPayload EXCEPT !.file_type = Some("xray"),
                         !.confidence_overall = c,
                         !.highlights = h,
                         !.summary_student = Some("loc student"),
                         !.summary_patient = Some("loc patient") ] :
        c \in OverallConfidences, h \in Highlights }

LocalizedSummaries == OptionOf({"", "localized"})
EnglishSummaries == OptionOf({"", "english"})

\* payloads that vary in the six summaries: localized and English
SummaryPayloads ==
    { [ NoPayload EXCEPT !.summary_patient = p[1], !.summary_patient_en = p[2],
                         !.summary_student = s[1], !.summary_student_en = s[2],
                         !.summary_doctor = d[1], !.summary_doctor_en = d[2] ] :
        p \in LocalizedSummaries \X EnglishSummaries,
        s \in LocalizedSummaries \X EnglishSummaries,
        d \in LocalizedSummaries \X EnglishSummaries }

LocalizedRecommendations == OptionOf({<<>>, <<"repos">>})
EnglishRecommendations == OptionOf({<<>>, <<"rest">>})

\* payloads that vary in the six recommendation lists
RecommendationPayloads ==
    { [ NoPayload EXCEPT !.recommendations_patient = p[1],
                         !.recommendations_patient_en = p[2],
                         !.recommendations_student = s[1],
                         !.recommendations_student_en = s[2],
                         !.recommendations_doctor = d[1],
                         !.recommendations_doctor_en = d[2] ] :
        p \in LocalizedRecommendations \X EnglishRecommendations,
        s \in LocalizedRecommendations \X EnglishRecommendations,
        d \in LocalizedRecommendations \X EnglishRecommendations }

\* payloads with one region and one artifact that vary in the two student
\* summaries
ExplanationPayloads ==
    { [ NoPayload EXCEPT !.file_type = Some("xray"),
                         !.highlights =
                             Some([ regions_of_interest |->
                                        Some(<< Item("Nodule", "3mm opacity", Some(95),
                                                     Some(<<10, 20, 30, 40>>)) >>),
                                    artifacts |->
                                        Some(<< Item("Blur", "motion", Absent, Absent) >>) ]),
                         !.summary_student = s[1],
                         !.summary_student_en = s[2] ] :
        s \in LocalizedSummaries \X EnglishSummaries }

Payloads ==
    FindingPayloads \cup SummaryPayloads \cup RecommendationPayloads
        \cup ExplanationPayloads

\* Math.random() draws for the finding ids: all equal, or alternating
RandomStreams(n) ==
    { [ i \in 1..n |-> s[((i - 1) % Len(s)) + 1] ] : s \in {<<"a">>, <<"a", "b">>} }

----------------------------------------------------------------------------
(* getApiKey *)

\* String.prototype.trim on the keys that occur
Trim(s) ==
    CASE s = "  " -> ""
      [] s = " k1 " -> "k1"
      [] OTHER -> s

getApiKey_windowFirst ==
    IF windowKey # Absent /\ windowKey[1] # "" THEN windowKey[1]
    ELSE IF localKey # Absent /\ Trim(localKey[1]) # "" THEN Trim(localKey[1])
    ELSE IF envKey # Absent /\ envKey[1] # "" THEN envKey[1]
    ELSE ""

\* first match: localStorage, window.MEDLENS_API_KEY, process.env.API_KEY
getApiKey ==
    IF localKey # Absent /\ Trim(localKey[1]) # "" THEN Trim(localKey[1])
    ELSE IF windowKey # Absent /\ windowKey[1] # "" THEN windowKey[1]
    ELSE IF envKey # Absent /\ envKey[1] # "" THEN envKey[1]
    ELSE ""

----------------------------------------------------------------------------
(* analyzeMedicalImage *)

\* An error message is the sequence of its fragments; includes(sub) looks
\* for the fragment sub.
includes(message, sub) == \E i \in 1..Len(message) : message[i] = sub

EmptyResponseMessage ==
    <<"The AI model returned an empty response. Please try again.">>
MalformedResponseMessage ==
    <<"Failed to parse the medical report. The AI response was malformed.">>
InvalidKeyMessage ==
    <<"Invalid API Key. Please update it in the Admin Configuration.">>
NetworkMessage ==
    <<"Network Error: Could not connect to Google AI services.">>
UnsupportedMessage ==
    <<"The image format is not supported or corrupted.">>
OverloadedMessage ==
    <<"The AI service is currently overloaded. Please try again in a moment.">>
SubmitFallbackMessage ==
    <<"An unexpected error occurred. Please try again.">>

\* TypeError raised by file.url.split when the url is null
UrlTypeError == <<"Cannot read properties of null (reading 'split')">>
\* TypeError raised by data.confidence_overall when data is null
DataTypeError == <<"Cannot read properties of null (reading 'confidence_overall')">>

classify_networkFirst(message) ==
    IF includes(message, "fetch") THEN NetworkMessage
    ELSE IF includes(message, "API key not valid") \/ includes(message, "API_KEY")
    THEN InvalidKeyMessage
    ELSE IF includes(message, "400") THEN UnsupportedMessage
    ELSE IF includes(message, "503") THEN OverloadedMessage
    ELSE message

\* the catch block: the message of the Error thrown to the caller
classify(message) ==
    IF includes(message, "API key not valid") \/ includes(message, "API_KEY")
    THEN InvalidKeyMessage
    ELSE IF includes(message, "fetch") THEN NetworkMessage
    ELSE IF includes(message, "400") THEN UnsupportedMessage
    ELSE IF includes(message, "503") THEN OverloadedMessage
    ELSE message

Resolved(result) == [kind |-> "resolved", result |-> Some(result), message |-> <<>>]
Rejected(message) == [kind |-> "rejected", result |-> Absent, message |-> message]

\* the payload simulateAnalysis maps
mockData ==
    [ file_type |-> Some("demo_simulation"),
      summary_patient |-> Some("DEMO MODE: REAL AI IS DISABLED."),
      summary_student |-> Some("To enable Real AI Analysis: Go to Admin Panel > Configuration > API Key Management and enter your Gemini API Key."),
      summary_doctor |-> Some("MISSING_API_KEY: The application is running in Simulation Mode because no API Key was found in LocalStorage or Environment Variables."),
      summary_patient_en |-> Some("DEMO MODE: REAL AI IS DISABLED."),
      summary_student_en |-> Some("To enable Real AI Analysis: Go to Admin Panel > Configuration > API Key Management and enter your Gemini API Key."),
      summary_doctor_en |-> Some("MISSING_API_KEY: The application is running in Simulation Mode because no API Key was found in LocalStorage or Environment Variables."),
      highlights |-> Some([ regions_of_interest |->
                                Some(<< Item("Configuration Error", "API Key Not Found",
                                             Some(100), Some(<<10, 10, 90, 90>>)) >>),
                            artifacts |-> Some(<<>>) ]),
      recommendations_patient |->
          Some(<<"Go to Admin Page", "Click Configuration Tab", "Enter API Key">>),
      recommendations_student |-> Some(<<>>),
      recommendations_doctor |-> Some(<<>>),
      recommendations_patient_en |->
          Some(<<"Go to Admin Page", "Click Configuration Tab", "Enter API Key">>),
      recommendations_student_en |-> Some(<<>>),
      recommendations_doctor_en |-> Some(<<>>),
      confidence_overall |-> Some(0) ]

\* simulateAnalysis once its delay has elapsed
simulateAnalysis(file, t, rnds) == Resolved(mapModelResponseToApp(mockData, file.id, t, rnds))

\* what generateContent answers: it throws, or returns a response whose text
\* is empty, is not JSON, or is the JSON text of null, of a number, of an
\* array or of an object.  Reading a property of a number or of an array
\* gives undefined, as on an object without that property; reading one of
\* null throws.
Response(kind, json, data, message) ==
    [kind |-> kind, json |-> json, data |-> data, message |-> message]

\* the try block after generateContent has answered, and the catch block
analyzeAnswer(file, response, t, rnds) ==
    IF response.kind = "throws" THEN Rejected(classify(response.message))
    ELSE IF response.kind = "empty" THEN Rejected(classify(EmptyResponseMessage))
    ELSE IF response.json = "invalid" THEN Rejected(classify(MalformedResponseMessage))
    ELSE IF response.json = "null" THEN Rejected(classify(DataTypeError))
    ELSE IF response.json \in {"number", "array"}
         THEN Resolved(mapModelResponseToApp(NoPayload, file.id, t, rnds))
    ELSE Resolved(mapModelResponseToApp(response.data, file.id, t, rnds))

generateContentCalls_retries(hasUrl) == IF getApiKey = "" \/ ~hasUrl THEN 0 ELSE 2

\* how many times one invocation reaches ai.models.generateContent: not at
\* all without a key, nor when splitting file.url has thrown
generateContentCalls(hasUrl) == IF getApiKey = "" \/ ~hasUrl THEN 0 ELSE 1

analyzeMedicalImage_ignoresMissingKey(file, hasUrl, response, t, rnds) ==
    IF ~hasUrl THEN Rejected(classify(UrlTypeError))
    ELSE analyzeAnswer(file, response, t, rnds)

\* analyzeMedicalImage(file, language) as a whole, for a file whose url is a
\* data URL (hasUrl) or null, and for what generateContent answers if called
analyzeMedicalImage(file, hasUrl, response, t, rnds) ==
    IF getApiKey = "" THEN simulateAnalysis(file, t, rnds)
    ELSE IF ~hasUrl THEN Rejected(classify(UrlTypeError))
    ELSE analyzeAnswer(file, response, t, rnds)

----------------------------------------------------------------------------
(* The store *)

\* addReport(report)
addReport(rs, report) == Append(rs, report)

\* updateReport(id, updates): the record with that id is replaced by the
\* record with the updated fields
updateReport(rs, id, field, value) ==
    [ i \in 1..Len(rs) |-> IF rs[i].id = id THEN [rs[i] EXCEPT ![field] = value] ELSE rs[i] ]

\* reports.find(r => r.id === id): index of the first match, 0 when none
findReport(rs, id) ==
    IF \E i \in 1..Len(rs) : rs[i].id = id
    THEN CHOOSE i \in 1..Len(rs) : rs[i].id = id /\ \A j \in 1..(i - 1) : rs[j].id # id
    ELSE 0

----------------------------------------------------------------------------
(* Pages and navigation *)

UploadInitial ==
    [ file |-> FALSE, preview |-> FALSE, reading |-> FALSE,
      selectedPatientId |-> "", selectedLanguage |-> "English",
      hasApiKey |-> TRUE, isProcessing |-> FALSE, error |-> Absent ]

ViewerInitial ==
    [ id |-> Absent, mode |-> "patient",
      showCorrectionInput |-> Absent, correctionText |-> "" ]

\* the route shown after navigate(r): ProtectedRoute sends a visitor without
\* a user to the login page
Shown(r) == IF user = Absent THEN "login" ELSE r

\* navigate(r): the page left is unmounted and loses its state, the page
\* entered is mounted with its initial state; an analyzeMedicalImage call
\* whose UploadReport is unmounted can no longer set that component's state
GoTo(r, id) ==
    /\ route' = Shown(r)
    /\ upload' = IF Shown(r) # "upload" THEN UploadInitial
                 ELSE IF route = "upload" THEN upload
                 ELSE [UploadInitial EXCEPT !.hasApiKey = (getApiKey # "")]
    /\ viewer' = IF Shown(r) # "report" THEN ViewerInitial
                 ELSE IF route = "report" THEN [viewer EXCEPT !.id = Some(id)]
                 ELSE [ViewerInitial EXCEPT !.id = Some(id)]

Unmounted(cs) == [ i \in 1..Len(cs) |-> [cs[i] EXCEPT !.mounted = FALSE] ]

RemoveAt(sq, k) == [ i \in 1..(Len(sq) - 1) |-> IF i < k THEN sq[i] ELSE sq[i + 1] ]

\* LoginPage.handleLogin
handleLogin ==
    /\ route = "login"
    /\ user' = Some("u1")
    /\ route' = "dashboard"
    /\ UNCHANGED <<returned, rawData, normalized, now, localKey, windowKey, envKey, reports,
                   upload, viewer, calls>>

\* Layout: Sign Out
logout ==
    /\ user # Absent
    /\ user' = Absent
    /\ route' = "login"
    /\ upload' = UploadInitial
    /\ viewer' = ViewerInitial
    /\ calls' = Unmounted(calls)
    /\ UNCHANGED <<returned, rawData, normalized, now, localKey, windowKey, envKey, reports>>

\* Layout: the sidebar links, and UploadReport's Cancel button
Navigate(r) ==
    /\ user # Absent
    /\ r # route
    /\ GoTo(r, <<>>)
    /\ calls' = IF route = "upload" THEN Unmounted(calls) ELSE calls
    /\ UNCHANGED <<returned, rawData, normalized, now, localKey, windowKey, envKey, user,
                   reports>>

\* a link to /report/:id of a stored report
OpenReport(id) ==
    /\ user # Absent
    /\ findReport(reports, id) # 0
    /\ ~(route = "report" /\ viewer.id = Some(id))
    /\ GoTo("report", id)
    /\ calls' = IF route = "upload" THEN Unmounted(calls) ELSE calls
    /\ UNCHANGED <<returned, rawData, normalized, now, localKey, windowKey, envKey, user,
                   reports>>

----------------------------------------------------------------------------
(* Admin *)

KeyInputs == {"", "  ", " k1 "}

handleSaveKey_keepsBlank(input) ==
    /\ route = "admin"
    /\ localKey' = Some(Trim(input))
    /\ UNCHANGED <<returned, rawData, normalized, now, windowKey, envKey, user, reports,
                   route, upload, viewer, calls>>

\* Admin.handleSaveKey with apiKey = input
handleSaveKey(input) ==
    /\ route = "admin"
    /\ localKey' = IF Trim(input) = "" THEN Absent ELSE Some(Trim(input))
    /\ UNCHANGED <<returned, rawData, normalized, now, windowKey, envKey, user, reports,
                   route, upload, viewer, calls>>

----------------------------------------------------------------------------
(* UploadReport *)

FileInputs == {"valid", "badType", "tooLarge"}
PatientIds == {"", "p1"}

InvalidTypeMessage == <<"Invalid file type. Please upload JPG, PNG, or PDF.">>
TooLargeMessage == <<"File is too large. Max size is 50MB.">>

\* processFile(f), reached from handleFileChange and handleDrop
processFile(f) ==
    /\ route = "upload"
    /\ ~upload.isProcessing
    /\ upload' =
         IF f = "badType" THEN [upload EXCEPT !.error = Some(InvalidTypeMessage)]
         ELSE IF f = "tooLarge" THEN [upload EXCEPT !.error = Some(TooLargeMessage)]
         ELSE [upload EXCEPT !.error = Absent, !.file = TRUE, !.reading = TRUE]
    /\ UNCHANGED <<returned, rawData, normalized, now, localKey, windowKey, envKey, user,
                   reports, route, viewer, calls>>

\* reader.onload: setPreview(ev.target.result)
readerOnload ==
    /\ route = "upload"
    /\ upload.reading
    /\ upload' = [upload EXCEPT !.preview = TRUE, !.reading = FALSE]
    /\ UNCHANGED <<returned, rawData, normalized, now, localKey, windowKey, envKey, user,
                   reports, route, viewer, calls>>

\* the remove button: setFile(null); setPreview(null)
removeFile ==
    /\ route = "upload"
    /\ ~upload.isProcessing
    /\ upload.file
    /\ upload' = [upload EXCEPT !.file = FALSE, !.preview = FALSE]
    /\ UNCHANGED <<returned, rawData, normalized, now, localKey, windowKey, envKey, user,
                   reports, route, viewer, calls>>

setSelectedPatientId(p) ==
    /\ route = "upload"
    /\ ~upload.isProcessing
    /\ p # upload.selectedPatientId
    /\ upload' = [upload EXCEPT !.selectedPatientId = p]
    /\ UNCHANGED <<returned, rawData, normalized, now, localKey, windowKey, envKey, user,
                   reports, route, viewer, calls>>

\* the close button of the error banner: setError(null)
dismissError ==
    /\ route = "upload"
    /\ upload.error # Absent
    /\ upload' = [upload EXCEPT !.error = Absent]
    /\ UNCHANGED <<returned, rawData, normalized, now, localKey, windowKey, envKey, user,
                   reports, route, viewer, calls>>

\* the reportFile object of handleSubmit (its url is upload.preview)
reportFile(t) == [id |-> <<"file", t>>]

Call(kind) ==
    [ kind |-> kind,
      file |-> reportFile(now),
      patientId |-> upload.selectedPatientId,
      language |-> upload.selectedLanguage,
      mounted |-> TRUE ]

submitFailed_silent(message) == [upload EXCEPT !.isProcessing = FALSE]

\* catch (err): setError(err.message || "..."); setIsProcessing(false)
submitFailed(message) ==
    [upload EXCEPT !.error = Some(IF message = <<>> THEN SubmitFallbackMessage ELSE message),
                   !.isProcessing = FALSE]

handleSubmit_ungated ==
    /\ route = "upload"
    /\ IF ~upload.file \/ upload.selectedPatientId = "" \/ user = Absent
       THEN UNCHANGED <<upload, calls>>
       ELSE /\ Len(reports) + Len(calls) < MaxReports
            /\ IF getApiKey = ""
               THEN /\ calls' = Append(calls, Call("simulate"))
                    /\ upload' = [upload EXCEPT !.isProcessing = TRUE, !.error = Absent]
               ELSE IF ~upload.preview
               THEN /\ upload' = submitFailed(classify(UrlTypeError))
                    /\ UNCHANGED calls
               ELSE /\ calls' = Append(calls, Call("model"))
                    /\ upload' = [upload EXCEPT !.isProcessing = TRUE, !.error = Absent]
    /\ UNCHANGED <<returned, rawData, normalized, now, localKey, windowKey, envKey, user,
                   reports, route, viewer>>

\* handleSubmit up to the await: the form is rendered only while
\* isProcessing is false.  analyzeMedicalImage runs up to its own first
\* await: it reads the key, and with a key it splits file.url, which throws
\* when the preview has not been read yet.
handleSubmit ==
    /\ route = "upload"
    /\ ~upload.isProcessing
    /\ IF ~upload.file \/ upload.selectedPatientId = "" \/ user = Absent
       THEN UNCHANGED <<upload, calls>>
       ELSE /\ Len(reports) + Len(calls) < MaxReports
            /\ IF getApiKey = ""
               THEN /\ calls' = Append(calls, Call("simulate"))
                    /\ upload' = [upload EXCEPT !.isProcessing = TRUE, !.error = Absent]
               ELSE IF ~upload.preview
               THEN /\ upload' = submitFailed(classify(UrlTypeError))
                    /\ UNCHANGED calls
               ELSE /\ calls' = Append(calls, Call("model"))
                    /\ upload' = [upload EXCEPT !.isProcessing = TRUE, !.error = Absent]
    /\ UNCHANGED <<returned, rawData, normalized, now, localKey, windowKey, envKey, user,
                   reports, route, viewer>>

newReport_approved(c, analysis, t) ==
    [ id |-> <<"rep", t>>, patientId |-> c.patientId, createdAt |-> t,
      status |-> "APPROVED", files |-> <<c.file>>,
      findings |-> analysis.findings, summary |-> analysis.summary,
      language |-> c.language,
      summaryPatient |-> analysis.summaryPatient,
      summaryStudent |-> analysis.summaryStudent,
      summaryDoctor |-> analysis.summaryDoctor,
      recommendationsPatient |-> analysis.recommendationsPatient,
      recommendationsStudent |-> analysis.recommendationsStudent,
      recommendationsDoctor |-> analysis.recommendationsDoctor,
      summaryPatientEn |-> analysis.summaryPatientEn,
      summaryStudentEn |-> analysis.summaryStudentEn,
      summaryDoctorEn |-> analysis.summaryDoctorEn,
      recommendationsPatientEn |-> analysis.recommendationsPatientEn,
      recommendationsStudentEn |-> analysis.recommendationsStudentEn,
      recommendationsDoctorEn |-> analysis.recommendationsDoctorEn ]

\* the newReport object of handleSubmit
newReport(c, analysis, t) ==
    [ id |-> <<"rep", t>>, patientId |-> c.patientId, createdAt |-> t,
      status |-> "REVIEW_REQUIRED", files |-> <<c.file>>,
      findings |-> analysis.findings, summary |-> analysis.summary,
      language |-> c.language,
      summaryPatient |-> analysis.summaryPatient,
      summaryStudent |-> analysis.summaryStudent,
      summaryDoctor |-> analysis.summaryDoctor,
      recommendationsPatient |-> analysis.recommendationsPatient,
      recommendationsStudent |-> analysis.recommendationsStudent,
      recommendationsDoctor |-> analysis.recommendationsDoctor,
      summaryPatientEn |-> analysis.summaryPatientEn,
      summaryStudentEn |-> analysis.summaryStudentEn,
      summaryDoctorEn |-> analysis.summaryDoctorEn,
      recommendationsPatientEn |-> analysis.recommendationsPatientEn,
      recommendationsStudentEn |-> analysis.recommendationsStudentEn,
      recommendationsDoctorEn |-> analysis.recommendationsDoctorEn ]

handleSubmitResumes_staysProcessing(k, t, outcome) ==
    /\ IF outcome.kind = "resolved"
       THEN LET report == newReport(calls[k], outcome.result[1], t) IN
            /\ now' = t
            /\ reports' = addReport(reports, report)
            /\ GoTo("report", report.id)
            /\ calls' = IF route = "upload" THEN Unmounted(RemoveAt(calls, k))
                        ELSE RemoveAt(calls, k)
       ELSE /\ upload' = IF calls[k].mounted
                         THEN [upload EXCEPT !.error = Some(outcome.message)]
                         ELSE upload
            /\ calls' = RemoveAt(calls, k)
            /\ UNCHANGED <<now, reports, route, viewer>>
    /\ UNCHANGED <<returned, rawData, normalized, localKey, windowKey, envKey, user>>

\* handleSubmit after the await, for the call at position k whose promise
\* settled with outcome: addReport and navigate, or the catch block
handleSubmitResumes(k, t, outcome) ==
    /\ IF outcome.kind = "resolved"
       THEN LET report == newReport(calls[k], outcome.result[1], t) IN
            /\ now' = t
            /\ reports' = addReport(reports, report)
            /\ GoTo("report", report.id)
            /\ calls' = IF route = "upload" THEN Unmounted(RemoveAt(calls, k))
                        ELSE RemoveAt(calls, k)
       ELSE /\ upload' = IF calls[k].mounted THEN submitFailed(outcome.message) ELSE upload
            /\ calls' = RemoveAt(calls, k)
            /\ UNCHANGED <<now, reports, route, viewer>>
    /\ UNCHANGED <<returned, rawData, normalized, localKey, windowKey, envKey, user>>

\* the payload of a report with one region and every summary
FullPayload ==
    [ file_type |-> Some("xray"), confidence_overall |-> Some(50),
      highlights |-> Some([ regions_of_interest |->
                                Some(<< Item("Nodule", "3mm opacity", Some(95),
                                             Some(<<10, 20, 30, 40>>)) >>),
                            artifacts |-> Some(<<>>) ]),
      summary_patient |-> Some("loc patient"), summary_student |-> Some("loc student"),
      summary_doctor |-> Some("loc doctor"),
      summary_patient_en |-> Some("en patient"), summary_student_en |-> Some("en student"),
      summary_doctor_en |-> Some("en doctor"),
      recommendations_patient |-> Some(<<"repos">>), recommendations_student |-> Absent,
      recommendations_doctor |-> Some(<<>>),
      recommendations_patient_en |-> Some(<<"rest">>), recommendations_student_en |-> Absent,
      recommendations_doctor_en |-> Absent ]

\* what generateContent does in a run
Responses ==
    { Response("empty", "", NoPayload, <<>>),
      Response("text", "object", FullPayload, <<>>),
      Response("throws", "", NoPayload, <<"TypeError: Failed to ", "fetch">>) }

\* Date.now() when a call settles with a result: the clock has advanced
\* since the last report was created (an analysis takes more than a
\* millisecond, and no two of them are taken to settle within the same one)
SettleTime == now + 1

\* the delay of simulateAnalysis elapses for the call at position k
simulationReturns(k) ==
    /\ k \in 1..Len(calls)
    /\ calls[k].kind = "simulate"
    /\ \E rnds \in RandomStreams(MaxRegions + MaxArtifacts) :
          handleSubmitResumes(k, SettleTime,
                              simulateAnalysis(calls[k].file, SettleTime, rnds))

\* generateContent answers the call at position k
generateContentReturns(k, response) ==
    /\ k \in 1..Len(calls)
    /\ calls[k].kind = "model"
    /\ \E rnds \in RandomStreams(MaxRegions + MaxArtifacts) :
          handleSubmitResumes(k, SettleTime,
                              analyzeAnswer(calls[k].file, response, SettleTime, rnds))

----------------------------------------------------------------------------
(* ReportViewer *)

Modes == {"patient", "student", "doctor"}
CorrectionTexts == {"", "not a nodule"}

\* const report = reports.find(r => r.id === id): 0 renders "Report not found"
viewed == IF route = "report" /\ viewer.id # Absent THEN findReport(reports, viewer.id[1]) ELSE 0

getSummaryForMode_english(report, mode) ==
    IF mode = "patient" THEN OrString(report.summaryPatientEn, report.summary)
    ELSE IF mode = "student" THEN OrString(report.summaryStudentEn, report.summary)
    ELSE OrString(report.summaryDoctorEn, report.summary)

\* getSummaryForMode
getSummaryForMode(report, mode) ==
    IF mode = "patient" THEN OrString(report.summaryPatient, report.summary)
    ELSE IF mode = "student" THEN OrString(report.summaryStudent, report.summary)
    ELSE OrString(report.summaryDoctor, report.summary)

\* getRecommendationsForMode
getRecommendationsForMode(report, mode) ==
    IF mode = "patient" THEN OrArray(report.recommendationsPatient, Some(<<>>))
    ELSE IF mode = "student" THEN OrArray(report.recommendationsStudent, Some(<<>>))
    ELSE OrArray(report.recommendationsDoctor, Some(<<>>))

\* the mode buttons
setMode(m) ==
    /\ viewed # 0
    /\ m # viewer.mode
    /\ viewer' = [viewer EXCEPT !.mode = m]
    /\ UNCHANGED <<returned, rawData, normalized, now, localKey, windowKey, envKey, user,
                   reports, route, upload, calls>>

handleApprove_dropsFeedback ==
    /\ viewed # 0
    /\ reports' = updateReport(
                     updateReport(reports, reports[viewed].id, "findings",
                        [ i \in 1..Len(reports[viewed].findings) |->
                            [reports[viewed].findings[i] EXCEPT !.feedback = Absent] ]),
                     reports[viewed].id, "status", "APPROVED")
    /\ GoTo("dashboard", <<>>)
    /\ UNCHANGED <<returned, rawData, normalized, now, localKey, windowKey, envKey, user,
                   calls>>

\* handleApprove
handleApprove ==
    /\ viewed # 0
    /\ reports' = updateReport(reports, reports[viewed].id, "status", "APPROVED")
    /\ GoTo("dashboard", <<>>)
    /\ UNCHANGED <<returned, rawData, normalized, now, localKey, windowKey, envKey, user,
                   calls>>

\* the Approve Report button is rendered while status !== APPROVED
clickApprove ==
    /\ viewed # 0
    /\ reports[viewed].status # "APPROVED"
    /\ handleApprove

updatedFindings_keepsFirst(findings, findingId, isAccurate, correction, t) ==
    [ i \in 1..Len(findings) |->
        IF findings[i].id = findingId /\ findings[i].feedback = Absent
        THEN [findings[i] EXCEPT !.feedback =
                 Some([isAccurate |-> isAccurate, correction |-> correction, timestamp |-> t])]
        ELSE findings[i] ]

updatedFindings_marksAll(findings, findingId, isAccurate, correction, t) ==
    [ i \in 1..Len(findings) |->
        [findings[i] EXCEPT !.feedback =
            Some([isAccurate |-> isAccurate, correction |-> correction, timestamp |-> t])] ]

updatedFindings_onlyTarget(findings, findingId, isAccurate, correction, t) ==
    LET marked == [ i \in 1..Len(findings) |->
                      [findings[i] EXCEPT !.feedback =
                          Some([isAccurate |-> isAccurate, correction |-> correction,
                                timestamp |-> t])] ]
        matches(f) == f.id = findingId
    IN  SelectSeq(marked, matches)

\* report.findings.map(...) of submitFeedback
updatedFindings(findings, findingId, isAccurate, correction, t) ==
    [ i \in 1..Len(findings) |->
        IF findings[i].id = findingId
        THEN [findings[i] EXCEPT !.feedback =
                 Some([isAccurate |-> isAccurate, correction |-> correction, timestamp |-> t])]
        ELSE findings[i] ]

submitFeedback_reopens(findingId, isAccurate, correction) ==
    /\ viewed # 0
    /\ reports' = updateReport(
                     updateReport(reports, reports[viewed].id, "findings",
                        updatedFindings(reports[viewed].findings, findingId,
                                        isAccurate, correction, now)),
                     reports[viewed].id, "status", "REVIEW_REQUIRED")
    /\ viewer' = [viewer EXCEPT !.showCorrectionInput = Absent, !.correctionText = ""]
    /\ UNCHANGED <<rawData, normalized, now, localKey, windowKey, envKey, user,
                   route, upload, calls>>

\* submitFeedback(findingId, isAccurate, correction)
submitFeedback(findingId, isAccurate, correction) ==
    /\ viewed # 0
    /\ reports' = updateReport(reports, reports[viewed].id, "findings",
                     updatedFindings(reports[viewed].findings, findingId,
                                     isAccurate, correction, now))
    /\ viewer' = [viewer EXCEPT !.showCorrectionInput = Absent, !.correctionText = ""]
    /\ UNCHANGED <<rawData, normalized, now, localKey, windowKey, envKey, user,
                   route, upload, calls>>

RECURSIVE feedbackCount(_)
feedbackCount(rs) ==
    IF rs = <<>> THEN 0
    ELSE Cardinality({ i \in 1..Len(Head(rs).findings) : Head(rs).findings[i].feedback # Absent })
         + feedbackCount(Tail(rs))

panelOpen_ignoresFeedback(i) ==
    /\ viewed # 0
    /\ feedbackCount(reports) < MaxFeedback
    /\ i \in 1..Len(reports[viewed].findings)

\* the feedback panel of finding i, opened by a click on the finding
\* (setSelectedFindingId): its buttons are rendered while the finding has no
\* feedback
panelOpen(i) ==
    /\ viewed # 0
    /\ feedbackCount(reports) < MaxFeedback
    /\ i \in 1..Len(reports[viewed].findings)
    /\ reports[viewed].findings[i].feedback = Absent

\* the Accurate button
clickAccurate(i) ==
    /\ panelOpen(i)
    /\ viewer.showCorrectionInput # Some(reports[viewed].findings[i].id)
    /\ submitFeedback(reports[viewed].findings[i].id, TRUE, Absent)
    /\ UNCHANGED returned

\* the Incorrect button: setShowCorrectionInput(finding.id)
clickIncorrect(i) ==
    /\ panelOpen(i)
    /\ viewer.showCorrectionInput # Some(reports[viewed].findings[i].id)
    /\ viewer' = [viewer EXCEPT !.showCorrectionInput = Some(reports[viewed].findings[i].id)]
    /\ UNCHANGED <<returned, rawData, normalized, now, localKey, windowKey, envKey, user,
                   reports, route, upload, calls>>

\* the textarea: setCorrectionText(e.target.value)
setCorrectionText(i, text) ==
    /\ panelOpen(i)
    /\ viewer.showCorrectionInput = Some(reports[viewed].findings[i].id)
    /\ text # viewer.correctionText
    /\ viewer' = [viewer EXCEPT !.correctionText = text]
    /\ UNCHANGED <<returned, rawData, normalized, now, localKey, windowKey, envKey, user,
                   reports, route, upload, calls>>

\* the Submit Correction button
clickSubmitCorrection(i) ==
    /\ panelOpen(i)
    /\ viewer.showCorrectionInput = Some(reports[viewed].findings[i].id)
    /\ submitFeedback(reports[viewed].findings[i].id, FALSE, Some(viewer.correctionText))
    /\ UNCHANGED returned

\* the Cancel button
clickCancel(i) ==
    /\ panelOpen(i)
    /\ viewer.showCorrectionInput = Some(reports[viewed].findings[i].id)
    /\ viewer' = [viewer EXCEPT !.showCorrectionInput = Absent, !.correctionText = ""]
    /\ UNCHANGED <<returned, rawData, normalized, now, localKey, windowKey, envKey, user,
                   reports, route, upload, calls>>

exportSummary_localized(report, mode) ==
    IF mode = "patient" THEN OrString(report.summaryPatient, report.summary)
    ELSE IF mode = "student" THEN OrString(report.summaryStudent, report.summary)
    ELSE OrString(report.summaryDoctor, report.summary)

\* summaryText of handleExportPDF
exportSummary(report, mode) ==
    IF mode = "patient" THEN OrString(report.summaryPatientEn, report.summary)
    ELSE IF mode = "student" THEN OrString(report.summaryStudentEn, report.summary)
    ELSE OrString(report.summaryDoctorEn, report.summary)

\* recs of handleExportPDF
exportRecommendations(report, mode) ==
    IF mode = "patient" THEN OrArray(report.recommendationsPatientEn, Some(<<>>))
    ELSE IF mode = "student" THEN OrArray(report.recommendationsStudentEn, Some(<<>>))
    ELSE OrArray(report.recommendationsDoctorEn, Some(<<>>))

\* handleExportPDF: reads the report and the mode, then doc.save writes the
\* file or the catch block raises the alert; no state is written
handleExportPDF ==
    /\ viewed # 0
    /\ UNCHANGED vars

----------------------------------------------------------------------------
(* The application *)

Routes == {"dashboard", "upload", "admin"}

ReportIds == { <<"rep", t>> : t \in 1..MaxReports }

Init ==
    /\ rawData = NoPayload
    /\ normalized = Absent
    /\ now = 0
    /\ localKey = Absent
    /\ windowKey = Absent
    /\ envKey = Absent
    /\ user = Absent
    /\ reports = <<>>
    /\ route = "login"
    /\ upload = UploadInitial
    /\ viewer = ViewerInitial
    /\ calls = <<>>
    /\ returned = Absent

Next ==
    \/ handleLogin
    \/ logout
    \/ \E r \in Routes : Navigate(r)
    \/ \E id \in ReportIds : OpenReport(id)
    \/ \E input \in KeyInputs : handleSaveKey(input)
    \/ \E f \in FileInputs : processFile(f)
    \/ readerOnload
    \/ removeFile
    \/ \E p \in PatientIds : setSelectedPatientId(p)
    \/ dismissError
    \/ handleSubmit
    \/ \E k \in 1..MaxReports : simulationReturns(k)
    \/ \E k \in 1..MaxReports, response \in Responses : generateContentReturns(k, response)
    \/ \E m \in Modes : setMode(m)
    \/ clickApprove
    \/ \E i \in 1..(1 + MaxRegions + MaxArtifacts) : clickAccurate(i)
    \/ \E i \in 1..(1 + MaxRegions + MaxArtifacts) : clickIncorrect(i)
    \/ \E i \in 1..(1 + MaxRegions + MaxArtifacts), text \in CorrectionTexts :
          setCorrectionText(i, text)
    \/ \E i \in 1..(1 + MaxRegions + MaxArtifacts) : clickSubmitCorrection(i)
    \/ \E i \in 1..(1 + MaxRegions + MaxArtifacts) : clickCancel(i)
    \/ handleExportPDF

Spec == Init /\ [][Next]_vars

----------------------------------------------------------------------------
(* mapModelResponseToApp applied to one payload *)

InitNormalize ==
    /\ rawData \in Payloads
    /\ normalized = Absent
    /\ now = 0
    /\ localKey = Absent
    /\ windowKey = Absent
    /\ envKey = Absent
    /\ user = Absent
    /\ reports = <<>>
    /\ route = "login"
    /\ upload = UploadInitial
    /\ viewer = ViewerInitial
    /\ calls = <<>>
    /\ returned = Absent

\* mapModelResponseToApp(data, file.id)
Normalize ==
    /\ normalized = Absent
    /\ \E rnds \in RandomStreams(MaxRegions + MaxArtifacts) :
          normalized' = Some(mapModelResponseToApp(rawData, <<"file", now>>, now, rnds))
    /\ UNCHANGED <<returned, rawData, now, localKey, windowKey, envKey, user, reports, route,
                   upload, viewer, calls>>

NextNormalize == Normalize

SpecNormalize == InitNormalize /\ [][NextNormalize]_vars

----------------------------------------------------------------------------
(* getApiKey and analyzeMedicalImage called on their own *)

StoredKeys == OptionOf({"", "  ", " k1 "})
WindowKeys == OptionOf({"", "w1"})
EnvKeys == OptionOf({"", "e1"})

\* what generateContent can answer
AdapterResponses ==
    Responses \cup
    { Response("text", "invalid", NoPayload, <<>>),
      Response("text", "null", NoPayload, <<>>),
      Response("text", "number", NoPayload, <<>>),
      Response("text", "array", NoPayload, <<>>),
      Response("text", "object", NoPayload, <<>>),
      Response("throws", "", NoPayload, <<"got status: ", "503", " UNAVAILABLE">>),
      Response("throws", "", NoPayload, <<"socket hang up">>),
      Response("throws", "", NoPayload,
               <<"got status: ", "400", ". ", "API key not valid", ". Please pass a valid API key.">>),
      Response("throws", "", NoPayload, <<"API_KEY", " rejected: ", "fetch", " failed">>),
      Response("throws", "", NoPayload, <<"got status: ", "400", " INVALID_ARGUMENT">>),
      Response("throws", "", NoPayload, <<"fetch", " failed with status ", "503">>),
      Response("throws", "", NoPayload, <<"got status: ", "400", " after ", "503">>) }

InitAdapter ==
    /\ rawData = NoPayload
    /\ normalized = Absent
    /\ now = 0
    /\ localKey \in StoredKeys
    /\ windowKey \in WindowKeys
    /\ envKey \in EnvKeys
    /\ user = Absent
    /\ reports = <<>>
    /\ route = "login"
    /\ upload = UploadInitial
    /\ viewer = ViewerInitial
    /\ calls = <<>>
    /\ returned = Absent

\* getApiKey()
callGetApiKey ==
    /\ returned' = Some([ call |-> "getApiKey", hasUrl |-> TRUE,
                          response |-> Response("none", "", NoPayload, <<>>),
                          outcome |-> [kind |-> "returned", result |-> Some(getApiKey),
                                       message |-> <<>>],
                          generateContentCalls |-> 0 ])
    /\ UNCHANGED <<rawData, normalized, now, localKey, windowKey, envKey, user,
                   reports, route, upload, viewer, calls>>

\* analyzeMedicalImage(file, language) until its promise settles
callAnalyzeMedicalImage(hasUrl, response) ==
    /\ \E rnds \in RandomStreams(MaxRegions + MaxArtifacts) :
          returned' = Some([ call |-> "analyzeMedicalImage", hasUrl |-> hasUrl,
                             response |-> response,
                             outcome |-> analyzeMedicalImage(reportFile(now), hasUrl,
                                                             response, now, rnds),
                             generateContentCalls |-> generateContentCalls(hasUrl) ])
    /\ UNCHANGED <<rawData, normalized, now, localKey, windowKey, envKey, user,
                   reports, route, upload, viewer, calls>>

NextAdapter ==
    \/ callGetApiKey
    \/ \E hasUrl \in BOOLEAN, response \in AdapterResponses :
          callAnalyzeMedicalImage(hasUrl, response)

SpecAdapter == InitAdapter /\ [][NextAdapter]_vars

----------------------------------------------------------------------------
(* The Admin page's key form, with getApiKey called on its own *)

\* a signed-in user on the Admin page; the three sources hold any values
InitAdmin ==
    /\ rawData = NoPayload
    /\ normalized = Absent
    /\ now = 0
    /\ localKey \in StoredKeys
    /\ windowKey \in WindowKeys
    /\ envKey \in EnvKeys
    /\ user = Some("u1")
    /\ reports = <<>>
    /\ route = "admin"
    /\ upload = UploadInitial
    /\ viewer = ViewerInitial
    /\ calls = <<>>
    /\ returned = Absent

NextAdmin ==
    \/ \E input \in KeyInputs : handleSaveKey(input)
    \/ callGetApiKey

SpecAdmin == InitAdmin /\ [][NextAdmin]_vars

----------------------------------------------------------------------------
(* The viewer's display and export selections on one stored report *)

\* the call of handleSubmit that a stored report came from
StoredCall ==
    [ kind |-> "model", file |-> reportFile(1), patientId |-> "p1",
      language |-> "English", mounted |-> TRUE ]

\* the report handleSubmit stores for the payload p
builtReport(p, rnds) ==
    newReport(StoredCall, mapModelResponseToApp(p, reportFile(1).id, 1, rnds), 1)

\* a report of the store that has none of the optional audience fields
withoutAudienceFields(r) ==
    [ r EXCEPT !.summaryPatient = Absent, !.summaryStudent = Absent,
               !.summaryDoctor = Absent, !.recommendationsPatient = Absent,
               !.recommendationsStudent = Absent, !.recommendationsDoctor = Absent,
               !.summaryPatientEn = Absent, !.summaryStudentEn = Absent,
               !.summaryDoctorEn = Absent, !.recommendationsPatientEn = Absent,
               !.recommendationsStudentEn = Absent, !.recommendationsDoctorEn = Absent ]

DisplayedReports ==
    { builtReport(p, [i \in 1..(MaxRegions + MaxArtifacts) |-> "a"]) :
        p \in SummaryPayloads \cup RecommendationPayloads \cup {FullPayload, mockData} }
    \cup { withoutAudienceFields(
              builtReport(FullPayload, [i \in 1..(MaxRegions + MaxArtifacts) |-> "a"])) }

InitDisplay ==
    /\ rawData = NoPayload
    /\ normalized = Absent
    /\ now = 1
    /\ localKey = Absent
    /\ windowKey = Absent
    /\ envKey = Absent
    /\ user = Some("u1")
    /\ reports \in { <<r>> : r \in DisplayedReports }
    /\ route = "report"
    /\ upload = UploadInitial
    /\ viewer = [ViewerInitial EXCEPT !.id = Some(<<"rep", 1>>)]
    /\ calls = <<>>
    /\ returned = Absent

NextDisplay ==
    \/ \E m \in Modes : setMode(m)
    \/ handleExportPDF

SpecDisplay == InitDisplay /\ [][NextDisplay]_vars

----------------------------------------------------------------------------
(* submitFeedback called on its own, on one stored report *)

TwoRegionPayload ==
    [ FullPayload EXCEPT !.highlights =
        Some([ regions_of_interest |->
                   Some(<< Item("Nodule", "3mm opacity", Some(95), Some(<<10, 20, 30, 40>>)),
                           Item("Opacity", "diffuse", Absent, Absent) >>),
               artifacts |-> Some(<<>>) ]) ]

FeedbackReports ==
    { builtReport(p, rnds) : p \in {FullPayload, TwoRegionPayload},
                             rnds \in RandomStreams(MaxRegions + MaxArtifacts) }

\* an identifier that no finding carries
MissingFindingId == <<"find", 0, "none">>

\* the identifiers submitFeedback is called with
FindingIdsOf(report) ==
    { report.findings[i].id : i \in 1..Len(report.findings) } \cup {MissingFindingId}

\* updateReport is called once by every submitFeedback, whatever findingId is
updateReportCalls(findings, findingId) == 1

InitFeedback ==
    /\ rawData = NoPayload
    /\ normalized = Absent
    /\ now = 1
    /\ localKey = Absent
    /\ windowKey = Absent
    /\ envKey = Absent
    /\ user = Some("u1")
    /\ reports \in { <<r>> : r \in FeedbackReports }
    /\ route = "report"
    /\ upload = UploadInitial
    /\ viewer = [ViewerInitial EXCEPT !.id = Some(<<"rep", 1>>)]
    /\ calls = <<>>
    /\ returned = Absent

\* submitFeedback(findingId, isAccurate, correction): it returns undefined
\* and has no throw statement
recordFeedback(findingId, isAccurate, correction) ==
    /\ submitFeedback(findingId, isAccurate, correction)
    /\ returned' = Some([ call |-> "submitFeedback", findingId |-> findingId,
                          isAccurate |-> isAccurate, correction |-> correction,
                          before |-> reports[viewed].findings,
                          updateReportCalls |->
                              updateReportCalls(reports[viewed].findings, findingId),
                          outcome |-> [kind |-> "returned", result |-> Absent,
                                       message |-> <<>>] ])

NextFeedback ==
    \E findingId \in FindingIdsOf(reports[1]), isAccurate \in BOOLEAN,
       correction \in OptionOf(CorrectionTexts) :
        recordFeedback(findingId, isAccurate, correction)

SpecFeedback == InitFeedback /\ [][NextFeedback]_vars

----------------------------------------------------------------------------
(* The upload page, with every call to analyzeMedicalImage settling *)

\* a signed-in user on the upload page, with or without a stored key
InitUpload ==
    /\ rawData = NoPayload
    /\ normalized = Absent
    /\ now = 0
    /\ localKey \in {Absent, Some("k1")}
    /\ windowKey = Absent
    /\ envKey = Absent
    /\ user = Some("u1")
    /\ reports = <<>>
    /\ route = "upload"
    /\ upload = [UploadInitial EXCEPT !.hasApiKey = (getApiKey # "")]
    /\ viewer = ViewerInitial
    /\ calls = <<>>
    /\ returned = Absent

\* the promise of some call in flight settles and handleSubmit resumes
Settle ==
    \/ \E k \in 1..MaxReports : simulationReturns(k)
    \/ \E k \in 1..MaxReports, response \in Responses : generateContentReturns(k, response)

NextUpload ==
    \/ \E r \in {"dashboard", "upload"} : Navigate(r)
    \/ \E f \in FileInputs : processFile(f)
    \/ readerOnload
    \/ removeFile
    \/ \E p \in PatientIds : setSelectedPatientId(p)
    \/ dismissError
    \/ handleSubmit
    \/ Settle

\* generateContent and the delay of simulateAnalysis are taken to return:
\* a promise that can settle does settle
SpecUpload == InitUpload /\ [][NextUpload]_vars /\ WF_vars(Settle)

----------------------------------------------------------------------------
(* Properties of the report lifecycle, stated on the store *)

HasFeedback(report) ==
    \E i \in 1..Len(report.findings) : report.findings[i].feedback # Absent

\* C1: through approve, submitFeedback, PDF export and the creation of
\* further reports, a report whose status is APPROVED stays in the store and
\* never has status REVIEW_REQUIRED again.
C1_ApprovedNeverReopened ==
    [][ \A i \in 1..Len(reports) :
          reports[i].status = "APPROVED" =>
              /\ i <= Len(reports')
              /\ reports'[i].id = reports[i].id
              /\ reports'[i].status # "REVIEW_REQUIRED" ]_vars

C1_Witness ==
    /\ Len(reports) = 2
    /\ reports[1].status = "APPROVED"
    /\ \E i \in 1..Len(reports[1].findings) :
          /\ reports[1].findings[i].feedback # Absent
          /\ reports[1].findings[i].feedback[1].timestamp = reports[2].createdAt

\* the results analyzeMedicalImage can resolve with for the call c at time t
Resolutions(c, t) ==
    { o.result[1] :
        o \in { x \in ( IF c.kind = "simulate"
                       THEN { simulateAnalysis(c.file, t, rnds) :
                                rnds \in RandomStreams(MaxRegions + MaxArtifacts) }
                       ELSE { analyzeAnswer(c.file, r[1], t, r[2]) :
                                r \in Responses \X RandomStreams(MaxRegions + MaxArtifacts) } ) :
                  x.kind = "resolved" } }

\* C2: a report is added to the store only by the step in which an
\* analyzeMedicalImage call resolves: it is added at the end, with status
\* REVIEW_REQUIRED, the file of that call and the findings the call resolved
\* with; no other step adds a report.
C2_CreatedReviewRequired ==
    [][ Len(reports') > Len(reports) =>
          /\ Len(reports') = Len(reports) + 1
          /\ SubSeq(reports', 1, Len(reports)) = reports
          /\ reports'[Len(reports')].status = "REVIEW_REQUIRED"
          /\ Len(calls') = Len(calls) - 1
          /\ \E k \in 1..Len(calls) :
                /\ reports'[Len(reports')].files = <<calls[k].file>>
                /\ \E res \in Resolutions(calls[k], now') :
                      /\ reports'[Len(reports')].findings = res.findings
                      /\ reports'[Len(reports')].summary = res.summary ]_vars

C2_Witness ==
    /\ Len(reports) = 2
    /\ reports[1].status = "REVIEW_REQUIRED"
    /\ reports[2].status = "REVIEW_REQUIRED"
    /\ reports[1].summary = mockData.summary_patient
    /\ reports[2].summary = FullPayload.summary_patient
    /\ calls = <<>>

----------------------------------------------------------------------------
(* Properties of mapModelResponseToApp, stated on rawData and normalized *)

\* the entries of a highlight list of the payload: none when highlights or
\* the list is missing
Entries(data, key) ==
    IF data.highlights = Absent \/ data.highlights[1][key] = Absent
    THEN <<>>
    ELSE data.highlights[1][key][1]

RegionEntries == Entries(rawData, "regions_of_interest")
ArtifactEntries == Entries(rawData, "artifacts")
AllEntries == RegionEntries \o ArtifactEntries

IsFileClassification(f) ==
    /\ f.id[1] = "ft"
    /\ f.category = "Impression"
    /\ f.explanation = Some(ClassifiedText)

\* the finding built from the entry at position i of AllEntries, when the
\* findings are 1 + N + M
FindingOfEntry(i) == normalized[1].findings[1 + i]

Counted ==
    /\ normalized # Absent
    /\ Len(normalized[1].findings) = 1 + Len(AllEntries)

\* C3: mapModelResponseToApp returns exactly 1 + N + M findings for a payload
\* with N regions_of_interest entries and M artifacts entries (a missing
\* highlights object or list counts as 0), and the finding at index 0 is the
\* file-classification finding.
C3_FindingCount ==
    normalized # Absent =>
        /\ Len(normalized[1].findings) = 1 + Len(RegionEntries) + Len(ArtifactEntries)
        /\ IsFileClassification(normalized[1].findings[1])
        /\ \A i \in 2..Len(normalized[1].findings) :
              ~IsFileClassification(normalized[1].findings[i])

C3_Witness ==
    /\ normalized # Absent
    /\ Len(RegionEntries) = 2
    /\ Len(ArtifactEntries) = 1
    /\ Len(normalized[1].findings) = 4

\* C4: the findings are the file-classification finding, then one finding per
\* regions_of_interest entry in the model's order, then one finding per
\* artifacts entry in the model's order.
C4_FindingOrder ==
    normalized # Absent =>
        /\ Counted
        /\ IsFileClassification(normalized[1].findings[1])
        /\ \A i \in 1..Len(RegionEntries) :
              normalized[1].findings[1 + i].text =
                  RegionEntries[i].label \o ": " \o RegionEntries[i].description
        /\ \A j \in 1..Len(ArtifactEntries) :
              normalized[1].findings[1 + Len(RegionEntries) + j].text =
                  ArtifactEntries[j].label \o ": " \o ArtifactEntries[j].description

C4_Witness ==
    /\ normalized # Absent
    /\ Len(RegionEntries) = 2
    /\ Len(ArtifactEntries) = 2
    /\ RegionEntries[1].label # RegionEntries[2].label
    /\ ArtifactEntries[1].label # ArtifactEntries[2].label
    /\ {RegionEntries[1].label, RegionEntries[2].label}
          \cap {ArtifactEntries[1].label, ArtifactEntries[2].label} = {}
    /\ normalized[1].findings[2].text =
          RegionEntries[1].label \o ": " \o RegionEntries[1].description
    /\ normalized[1].findings[5].text =
          ArtifactEntries[2].label \o ": " \o ArtifactEntries[2].description

\* C5: an entry with no confidence field gives a finding of confidence 0.8
\* exactly, and a payload with no confidence_overall gives a
\* file-classification finding of confidence 0.9 exactly.
C5_DefaultConfidence ==
    normalized # Absent =>
        /\ Counted
        /\ \A i \in 1..Len(AllEntries) :
              AllEntries[i].confidence = Absent => FindingOfEntry(i).confidence = Some(80)
        /\ rawData.confidence_overall = Absent =>
              normalized[1].findings[1].confidence = Some(90)

C5_Witness ==
    /\ normalized # Absent
    /\ rawData.confidence_overall = Absent
    /\ normalized[1].findings[1].confidence = Some(90)
    /\ \E i \in 1..Len(AllEntries) :
          /\ AllEntries[i].confidence = Absent
          /\ FindingOfEntry(i).confidence = Some(80)

\* C6: a declared confidence is passed through unmodified: an entry with a
\* declared confidence c (0 and values outside [0,1] included) gives a finding
\* of confidence c, and a declared confidence_overall v gives a
\* file-classification finding of confidence v.
C6_DeclaredConfidencePassedThrough ==
    normalized # Absent =>
        /\ Counted
        /\ \A i \in 1..Len(AllEntries) :
              AllEntries[i].confidence # Absent =>
                  FindingOfEntry(i).confidence = AllEntries[i].confidence
        /\ rawData.confidence_overall # Absent =>
              normalized[1].findings[1].confidence = rawData.confidence_overall

\* the bbox the specification gives for box_2d = [ymin, xmin, ymax, xmax]
ExpectedBox(b) ==
    [ y |-> Num(b[1]), x |-> Num(b[2]),
      height |-> Num(b[3] - b[1]), width |-> Num(b[4] - b[2]) ]

FourElementBox(e) == e.box_2d # Absent /\ Len(e.box_2d[1]) = 4

\* C7: an entry with box_2d = [ymin, xmin, ymax, xmax] gives a finding with
\* exactly one evidence, whose bbox is {y: ymin, x: xmin, height: ymax - ymin,
\* width: xmax - xmin}.
C7_BoxConversion ==
    normalized # Absent =>
        /\ Counted
        /\ \A i \in 1..Len(AllEntries) :
              FourElementBox(AllEntries[i]) =>
                  /\ Len(FindingOfEntry(i).evidence) = 1
                  /\ FindingOfEntry(i).evidence[1].bbox = ExpectedBox(AllEntries[i].box_2d[1])

C7_Witness ==
    /\ normalized # Absent
    /\ Len(RegionEntries) >= 1
    /\ RegionEntries[1].box_2d = Some(<<10, 20, 30, 40>>)
    /\ Len(normalized[1].findings[2].evidence) = 1
    /\ normalized[1].findings[2].evidence[1].bbox =
          [ y |-> Num(10), x |-> Num(20), height |-> Num(20), width |-> Num(20) ]

\* C8: a finding carries an evidence bounding box only when the entry has a
\* four-element box_2d: entries with no box_2d or with fewer or more than four
\* elements get none, and the file-classification finding never has evidence.
C8_BoxOnlyForFourElements ==
    normalized # Absent =>
        /\ Counted
        /\ normalized[1].findings[1].evidence = <<>>
        /\ \A i \in 1..Len(AllEntries) :
              FindingOfEntry(i).evidence # <<>> => FourElementBox(AllEntries[i])

NonNegative(n) == n.t = "number" => n.v >= 0

\* C9 as stated: every bounding box has width >= 0 and height >= 0, inverted
\* box_2d included.
C9_BoxNeverNegative ==
    normalized # Absent =>
        \A i \in 1..Len(normalized[1].findings) :
            \A j \in 1..Len(normalized[1].findings[i].evidence) :
                /\ NonNegative(normalized[1].findings[i].evidence[j].bbox.width)
                /\ NonNegative(normalized[1].findings[i].evidence[j].bbox.height)

Ordered(b) == b[3] >= b[1] /\ b[4] >= b[2]

\* C9 as amended: a bounding box built from a four-element box_2d with
\* ymax >= ymin and xmax >= xmin has width >= 0 and height >= 0; for an
\* inverted box_2d the negative difference is kept as it is.
C9_OrderedBoxNonNegative ==
    normalized # Absent =>
        /\ Counted
        /\ \A i \in 1..Len(AllEntries) :
              FourElementBox(AllEntries[i]) =>
                  LET b == AllEntries[i].box_2d[1]
                      box == FindingOfEntry(i).evidence[1].bbox
                  IN /\ Len(FindingOfEntry(i).evidence) = 1
                     /\ box.height.t = "number" /\ box.width.t = "number"
                     /\ Ordered(b) => box.height.v >= 0 /\ box.width.v >= 0
                     /\ b[3] < b[1] => box.height.v = b[3] - b[1] /\ box.height.v < 0
                     /\ b[4] < b[2] => box.width.v = b[4] - b[2] /\ box.width.v < 0

C9_Witness ==
    /\ normalized # Absent
    /\ \E i \in 1..Len(AllEntries) :
          /\ FourElementBox(AllEntries[i])
          /\ Ordered(AllEntries[i].box_2d[1])
          /\ FindingOfEntry(i).evidence[1].bbox.height.v >= 0
    /\ \E i \in 1..Len(AllEntries) :
          /\ FourElementBox(AllEntries[i])
          /\ ~Ordered(AllEntries[i].box_2d[1])
          /\ FindingOfEntry(i).evidence[1].bbox.height.v < 0

\* C10: for each audience, when the payload has no English summary (or no
\* English recommendations) the English field of the result equals the
\* localized field of the result; and all six localized and all six English
\* fields of the result are defined.
C10_EnglishFallback ==
    normalized # Absent =>
        LET r == normalized[1] IN
        /\ rawData.summary_patient_en = Absent => r.summaryPatientEn = r.summaryPatient
        /\ rawData.summary_student_en = Absent => r.summaryStudentEn = r.summaryStudent
        /\ rawData.summary_doctor_en = Absent => r.summaryDoctorEn = r.summaryDoctor
        /\ rawData.recommendations_patient_en = Absent =>
              r.recommendationsPatientEn = r.recommendationsPatient
        /\ rawData.recommendations_student_en = Absent =>
              r.recommendationsStudentEn = r.recommendationsStudent
        /\ rawData.recommendations_doctor_en = Absent =>
              r.recommendationsDoctorEn = r.recommendationsDoctor
        /\ Absent \notin
              { r.summaryPatient, r.summaryStudent, r.summaryDoctor,
                r.summaryPatientEn, r.summaryStudentEn, r.summaryDoctorEn }
        /\ Absent \notin
              { r.recommendationsPatient, r.recommendationsStudent, r.recommendationsDoctor,
                r.recommendationsPatientEn, r.recommendationsStudentEn,
                r.recommendationsDoctorEn }

C10_Witness ==
    /\ normalized # Absent
    /\ rawData.summary_patient_en = Absent
    /\ rawData.summary_patient = Some("localized")
    /\ normalized[1].summaryPatientEn = Some("localized")
    /\ rawData.summary_doctor_en = Some("english")
    /\ normalized[1].summaryDoctorEn = Some("english")

----------------------------------------------------------------------------
(* Properties of the display and export selections, stated on the report   *)
(* the viewer shows                                                        *)

SummaryFieldOf(mode) ==
    CASE mode = "patient" -> "summaryPatient"
      [] mode = "student" -> "summaryStudent"
      [] mode = "doctor" -> "summaryDoctor"

RecommendationsFieldOf(mode) ==
    CASE mode = "patient" -> "recommendationsPatient"
      [] mode = "student" -> "recommendationsStudent"
      [] mode = "doctor" -> "recommendationsDoctor"

EnglishFieldOf(field) == field \o "En"

NonEmptyText(o) == o # Absent /\ o[1] # ""

\* C11: for the report shown and each audience, the summary displayed is the
\* audience's localized summary when that is non-empty and the canonical
\* summary otherwise; the recommendations displayed are the audience's
\* localized list when the report has one and the empty list otherwise;
\* neither is undefined.
C11_DisplaySelection ==
    viewed # 0 =>
        \A mode \in Modes :
            LET report == reports[viewed]
                summary == getSummaryForMode(report, mode)
                recs == getRecommendationsForMode(report, mode)
                ownSummary == report[SummaryFieldOf(mode)]
                ownRecs == report[RecommendationsFieldOf(mode)]
            IN /\ NonEmptyText(ownSummary) => summary = ownSummary
               /\ ~NonEmptyText(ownSummary) => summary = report.summary
               /\ ownRecs # Absent => recs = ownRecs
               /\ ownRecs = Absent => recs = Some(<<>>)
               /\ summary # Absent
               /\ recs # Absent

C11_Witness ==
    /\ viewed # 0
    /\ viewer.mode = "student"
    /\ reports[viewed].summaryStudent = Some("")
    /\ reports[viewed].summaryStudentEn = Some("english")
    /\ reports[viewed].summary = Some("localized")
    /\ getSummaryForMode(reports[viewed], viewer.mode) = Some("localized")

\* C12: for the report shown and each audience, the summary exported is the
\* audience's English summary when that is non-empty and the canonical
\* summary otherwise; the recommendations exported are the audience's
\* English list when the report has one and the empty list otherwise; and
\* neither depends on what the localized audience fields hold.
C12_ExportSelection ==
    viewed # 0 =>
        \A mode \in Modes :
            LET report == reports[viewed]
                summary == exportSummary(report, mode)
                recs == exportRecommendations(report, mode)
                ownSummary == report[EnglishFieldOf(SummaryFieldOf(mode))]
                ownRecs == report[EnglishFieldOf(RecommendationsFieldOf(mode))]
            IN /\ NonEmptyText(ownSummary) => summary = ownSummary
               /\ ~NonEmptyText(ownSummary) => summary = report.summary
               /\ ownRecs # Absent => recs = ownRecs
               /\ ownRecs = Absent => recs = Some(<<>>)
               /\ \A other \in Modes, text \in OptionOf({"", "autre texte"}) :
                     exportSummary([report EXCEPT ![SummaryFieldOf(other)] = text], mode)
                         = summary
               /\ \A other \in Modes, list \in OptionOf({<<>>, <<"autre conseil">>}) :
                     exportRecommendations(
                         [report EXCEPT ![RecommendationsFieldOf(other)] = list], mode) = recs

C12_Witness ==
    /\ viewed # 0
    /\ viewer.mode = "doctor"
    /\ reports[viewed].summaryDoctor = Some("localized")
    /\ reports[viewed].summaryDoctorEn = Some("english")
    /\ exportSummary(reports[viewed], viewer.mode) = Some("english")

\* C13: for a stored report built from mapModelResponseToApp's result, the
\* canonical summary is a non-empty string, and for each audience the
\* summary displayed and the summary exported are non-empty strings, equal to
\* the canonical summary whenever the audience's own field is empty.
C13_SummaryNeverEmpty ==
    viewed # 0 =>
        \A mode \in Modes :
            LET report == reports[viewed] IN
            /\ NonEmptyText(report.summary)
            /\ NonEmptyText(getSummaryForMode(report, mode))
            /\ NonEmptyText(exportSummary(report, mode))
            /\ ~NonEmptyText(report[SummaryFieldOf(mode)]) =>
                  getSummaryForMode(report, mode) = report.summary
            /\ ~NonEmptyText(report[EnglishFieldOf(SummaryFieldOf(mode))]) =>
                  exportSummary(report, mode) = report.summary

C13_Witness ==
    /\ viewed # 0
    /\ viewer.mode = "doctor"
    /\ reports[viewed].summary = Some("Analysis complete.")
    /\ reports[viewed].summaryPatient = Some("")
    /\ reports[viewed].summaryDoctor = Some("")
    /\ reports[viewed].summaryDoctorEn = Some("")
    /\ getSummaryForMode(reports[viewed], viewer.mode) = Some("Analysis complete.")

----------------------------------------------------------------------------
(* Properties of submitFeedback, stated on the store and on returned *)

FeedbackRecorded == returned # Absent /\ returned[1].call = "submitFeedback"

\* C14: after any sequence of submitFeedback calls each finding holds at
\* most one feedback record, and the record of the finding the latest call
\* named carries that call's isAccurate and correction, whatever record the
\* finding held before.
C14_LastFeedbackWins ==
    /\ \A r \in 1..Len(reports) : \A i \in 1..Len(reports[r].findings) :
          Len(reports[r].findings[i].feedback) <= 1
    /\ FeedbackRecorded =>
          \A i \in 1..Len(reports[1].findings) :
              reports[1].findings[i].id = returned[1].findingId =>
                  /\ Len(reports[1].findings[i].feedback) = 1
                  /\ reports[1].findings[i].feedback[1].isAccurate = returned[1].isAccurate
                  /\ reports[1].findings[i].feedback[1].correction = returned[1].correction

C14_Witness ==
    /\ FeedbackRecorded
    /\ \E i \in 1..Len(reports[1].findings) :
          /\ reports[1].findings[i].id = returned[1].findingId
          /\ returned[1].before[i].feedback # Absent
          /\ returned[1].before[i].feedback[1].isAccurate
          /\ returned[1].before[i].feedback[1].correction = Absent
          /\ ~reports[1].findings[i].feedback[1].isAccurate
          /\ reports[1].findings[i].feedback[1].correction = Some("not a nodule")

\* C15: submitFeedback(findingId, ...) returns every finding with another
\* id unchanged, feedback included, keeps the number and order of the
\* findings, and changes nothing but the feedback of the finding it names.
C15_OnlyTargetFeedbackChanges ==
    FeedbackRecorded =>
        /\ Len(reports[1].findings) = Len(returned[1].before)
        /\ \A i \in 1..Len(returned[1].before) :
              IF returned[1].before[i].id # returned[1].findingId
              THEN reports[1].findings[i] = returned[1].before[i]
              ELSE [reports[1].findings[i] EXCEPT !.feedback = returned[1].before[i].feedback]
                       = returned[1].before[i]

C15_Witness ==
    /\ FeedbackRecorded
    /\ \E i, j \in 1..Len(reports[1].findings) :
          /\ reports[1].findings[i].id = returned[1].findingId
          /\ reports[1].findings[i].feedback # returned[1].before[i].feedback
          /\ reports[1].findings[j].id # returned[1].findingId
          /\ returned[1].before[j].feedback # Absent
          /\ reports[1].findings[j].feedback = returned[1].before[j].feedback

\* C16: submitFeedback with an identifier that no finding of the report
\* carries fails with FindingNotFound, leaves the finding list as it was and
\* does not call updateReport.
C16_MissingFindingFails ==
    ( FeedbackRecorded
      /\ \A i \in 1..Len(returned[1].before) :
            returned[1].before[i].id # returned[1].findingId ) =>
        /\ returned[1].outcome.kind = "threw"
        /\ returned[1].outcome.message = <<"FindingNotFound">>
        /\ reports[1].findings = returned[1].before
        /\ returned[1].updateReportCalls = 0

----------------------------------------------------------------------------
(* Properties of getApiKey and analyzeMedicalImage, stated on returned *)

Analyzed == returned # Absent /\ returned[1].call = "analyzeMedicalImage"

SummaryFields ==
    { "summary", "summaryPatient", "summaryStudent", "summaryDoctor",
      "summaryPatientEn", "summaryStudentEn", "summaryDoctorEn" }

\* reading of the three texts simulateAnalysis uses: which of them say that
\* the application runs in demonstration or simulation mode, and which tell
\* the user how to supply a key
StatesSimulationMode(text) ==
    text \in { "DEMO MODE: REAL AI IS DISABLED.",
               "MISSING_API_KEY: The application is running in Simulation Mode because no API Key was found in LocalStorage or Environment Variables." }

ExplainsCredential(text) ==
    text = "To enable Real AI Analysis: Go to Admin Panel > Configuration > API Key Management and enter your Gemini API Key."

\* C17: when getApiKey returns the empty string, analyzeMedicalImage
\* resolves (it never rejects), does not call generateContent, and the
\* patient summary of its result is the demonstration-mode notice.
C17_NoKeySimulates ==
    (Analyzed /\ getApiKey = "") =>
        /\ returned[1].outcome.kind = "resolved"
        /\ returned[1].generateContentCalls = 0
        /\ returned[1].outcome.result[1].summaryPatient = Some("DEMO MODE: REAL AI IS DISABLED.")

C17_Witness ==
    /\ Analyzed
    /\ localKey = Some("  ") /\ windowKey = Some("") /\ envKey = Absent
    /\ returned[1].response.kind = "throws"
    /\ returned[1].outcome.kind = "resolved"

\* C18: in the simulated result every summary field (the canonical summary,
\* the three audience summaries and their English variants) both states the
\* demonstration or simulation mode and explains how to supply a key.
C18_EverySummaryStatesAndExplains ==
    (Analyzed /\ getApiKey = "") =>
        \A f \in SummaryFields :
            LET text == returned[1].outcome.result[1][f][1] IN
            StatesSimulationMode(text) /\ ExplainsCredential(text)

LocalPresent == localKey # Absent /\ Trim(localKey[1]) # ""
WindowPresent == windowKey # Absent /\ windowKey[1] # ""
EnvPresent == envKey # Absent /\ envKey[1] # ""

\* C19: getApiKey returns the first present source in the order
\* localStorage, window.MEDLENS_API_KEY, process.env.API_KEY (a blank stored
\* key and an empty string count as absent), and the empty string exactly
\* when none of the three is present.
C19_FirstPresentSourceWins ==
    (returned # Absent /\ returned[1].call = "getApiKey") =>
        LET key == returned[1].outcome.result[1] IN
        /\ LocalPresent => key = Trim(localKey[1])
        /\ (~LocalPresent /\ WindowPresent) => key = windowKey[1]
        /\ (~LocalPresent /\ ~WindowPresent /\ EnvPresent) => key = envKey[1]
        /\ (key = "") <=> (~LocalPresent /\ ~WindowPresent /\ ~EnvPresent)

C19_Witness ==
    /\ returned # Absent /\ returned[1].call = "getApiKey"
    /\ localKey = Some(" k1 ") /\ windowKey = Some("w1") /\ envKey = Some("e1")
    /\ returned[1].outcome.result = Some("k1")

\* C20: with a key, analyzeMedicalImage rejects with the empty-response
\* error when generateContent returns no text, and with the
\* malformed-response error when the text is not the JSON text of an object
\* (not JSON at all, or the JSON text of null, a number or an array).
C20_NonObjectTextRejected ==
    (Analyzed /\ getApiKey # "" /\ returned[1].hasUrl) =>
        /\ returned[1].response.kind = "empty" =>
              returned[1].outcome = Rejected(EmptyResponseMessage)
        /\ (returned[1].response.kind = "text" /\ returned[1].response.json # "object") =>
              returned[1].outcome = Rejected(MalformedResponseMessage)

\* the sub-reason of a caught error, by first match on its message
SubReason(message) ==
    CASE includes(message, "API key not valid") \/ includes(message, "API_KEY")
             -> "InvalidCredential"
      [] ~(includes(message, "API key not valid") \/ includes(message, "API_KEY"))
         /\ includes(message, "fetch")
             -> "NetworkUnreachable"
      [] ~(includes(message, "API key not valid") \/ includes(message, "API_KEY"))
         /\ ~includes(message, "fetch") /\ includes(message, "400")
             -> "UnsupportedInput"
      [] ~(includes(message, "API key not valid") \/ includes(message, "API_KEY"))
         /\ ~includes(message, "fetch") /\ ~includes(message, "400")
         /\ includes(message, "503")
             -> "Overloaded"
      [] OTHER -> "Unknown"

\* the message each sub-reason reaches the caller with
MessageOfReason(reason, original) ==
    CASE reason = "InvalidCredential" -> InvalidKeyMessage
      [] reason = "NetworkUnreachable" -> NetworkMessage
      [] reason = "UnsupportedInput" -> UnsupportedMessage
      [] reason = "Overloaded" -> OverloadedMessage
      [] reason = "Unknown" -> original

CalledModel == Analyzed /\ getApiKey # "" /\ returned[1].hasUrl

\* C21: an error caught in analyzeMedicalImage is classified by first match
\* on its message, in the order "API key not valid" or "API_KEY"
\* (InvalidCredential), "fetch" (NetworkUnreachable), "400"
\* (UnsupportedInput), "503" (Overloaded), else Unknown, which keeps the
\* original message; the empty-response and malformed-response errors
\* thrown in the same try block reach the caller with their own messages.
C21_ClassifiedByFirstMatch ==
    CalledModel =>
        /\ returned[1].response.kind = "throws" =>
              returned[1].outcome =
                  Rejected(MessageOfReason(SubReason(returned[1].response.message),
                                           returned[1].response.message))
        /\ returned[1].response.kind = "empty" =>
              returned[1].outcome.message = EmptyResponseMessage
        /\ (returned[1].response.kind = "text" /\ returned[1].response.json = "invalid") =>
              returned[1].outcome.message = MalformedResponseMessage

C21_Witness ==
    /\ CalledModel
    /\ returned[1].response.kind = "throws"
    /\ includes(returned[1].response.message, "API_KEY")
    /\ includes(returned[1].response.message, "fetch")
    /\ returned[1].outcome = Rejected(InvalidKeyMessage)

\* the answers of generateContent that make the invocation fail: no text,
\* text that is not JSON, an error thrown by the call
FailingAnswer(response) ==
    \/ response.kind = "empty"
    \/ response.kind = "text" /\ response.json = "invalid"
    \/ response.kind = "throws"

----------------------------------------------------------------------------
(* Properties of the upload page *)

\* the form passes the check at the head of handleSubmit
FormComplete == upload.file /\ upload.selectedPatientId # "" /\ user # Absent

\* the call at position k settles with a rejection in this step
RejectedSettle(k) ==
    \E response \in Responses :
        /\ calls[k].kind = "model"
        /\ \E rnds \in RandomStreams(MaxRegions + MaxArtifacts) :
              analyzeAnswer(calls[k].file, response, SettleTime, rnds).kind = "rejected"
        /\ generateContentReturns(k, response)

\* analyzeMedicalImage rejects before its first await, inside handleSubmit
RejectedAtOnce ==
    /\ handleSubmit
    /\ FormComplete /\ getApiKey # "" /\ ~upload.preview

ErrorShown(u) == u.error # Absent /\ u.error[1] # <<>>

MountedCalls == { k \in 1..Len(calls) : calls[k].mounted }

\* C24 as stated: at most one analysis call is in flight at any time; while
\* isProcessing is true no submit is available; a submit with no file, no
\* selected patient or no user starts no call and changes no state.
C24_OneCallInFlight ==
    /\ Len(calls) <= 1
    /\ (route = "upload" /\ upload.isProcessing) => ~ENABLED handleSubmit
    /\ (route = "upload" /\ ~FormComplete) => ~ENABLED (handleSubmit /\ vars' # vars)

\* C24, amended: at most one call started by the upload page shown now is
\* in flight, and the page is processing exactly while it is; while
\* isProcessing is true no submit is available; a submit with no file, no
\* selected patient or no user starts no call and changes no state.  (A
\* call started by a page that has been left stays in flight beside it.)
C24_OneCallPerMountedPage ==
    /\ Cardinality(MountedCalls) <= 1
    /\ (MountedCalls # {}) <=> (route = "upload" /\ upload.isProcessing)
    /\ (route = "upload" /\ upload.isProcessing) => ~ENABLED handleSubmit
    /\ (route = "upload" /\ ~FormComplete) => ~ENABLED (handleSubmit /\ vars' # vars)

C24_Witness ==
    /\ route = "upload"
    /\ upload.isProcessing
    /\ Len(calls) = 2
    /\ Cardinality(MountedCalls) = 1

\* the call at position k settles in this step
Settles(k) ==
    \/ simulationReturns(k)
    \/ \E response \in Responses : generateContentReturns(k, response)

\* one new report has been added and the page has navigated to it
ReportAddedAndOpened ==
    /\ Len(reports') = Len(reports) + 1
    /\ \A i \in 1..Len(reports) : reports'[i] = reports[i]
    /\ route' = "report"
    /\ viewer'.id = Some(reports'[Len(reports')].id)

\* the upload page is back to its form with an error message
BackWithError ==
    /\ reports' = reports
    /\ route' = "upload"
    /\ ~upload'.isProcessing
    /\ ErrorShown(upload')

Processing == route = "upload" /\ upload.isProcessing

----------------------------------------------------------------------------
(* Properties of the report viewer's updates *)

FindingIndexes == 1..(1 + MaxRegions + MaxArtifacts)

\* the feedback of finding i of a report, Absent past the end of the list
FeedbackAt(report, i) ==
    IF i \in 1..Len(report.findings) THEN report.findings[i].feedback ELSE Absent

\* C25: no update is lost.  A step that records feedback on one finding
\* keeps the feedback every other finding of the report already holds and
\* keeps the status APPROVED of an approved report; a step that approves a
\* report keeps every feedback recorded on it.
C25_NoLostUpdate ==
    [][ \A r \in 1..Len(reports) :
          /\ Len(reports') >= Len(reports)
          /\ \A i \in FindingIndexes :
                FeedbackAt(reports'[r], i) # FeedbackAt(reports[r], i) =>
                    /\ \A j \in FindingIndexes \ {i} :
                          FeedbackAt(reports[r], j) # Absent =>
                              FeedbackAt(reports'[r], j) = FeedbackAt(reports[r], j)
                    /\ reports[r].status = "APPROVED" => reports'[r].status = "APPROVED"
          /\ reports'[r].status # reports[r].status =>
                \A i \in FindingIndexes :
                    FeedbackAt(reports'[r], i) = FeedbackAt(reports[r], i) ]_vars

C25_Witness ==
    \E r \in 1..Len(reports) :
        /\ reports[r].status = "APPROVED"
        /\ Len(reports[r].findings) = 2
        /\ reports[r].findings[1].feedback # Absent
        /\ reports[r].findings[2].feedback # Absent
        /\ reports[r].findings[1].feedback[1].isAccurate
               # reports[r].findings[2].feedback[1].isAccurate

\* C28: through the viewer feedback is write-once.  Accurate and Submit
\* Correction are not available for a finding that has a feedback record,
\* and no step changes or removes a feedback record once it is there.
C28_FeedbackWriteOnce ==
    /\ [] ( viewed # 0 =>
              \A i \in 1..Len(reports[viewed].findings) :
                  reports[viewed].findings[i].feedback # Absent =>
                      /\ ~ENABLED clickAccurate(i)
                      /\ ~ENABLED clickSubmitCorrection(i) )
    /\ [][ \A r \in 1..Len(reports), i \in FindingIndexes :
              FeedbackAt(reports[r], i) # Absent =>
                  /\ r <= Len(reports')
                  /\ FeedbackAt(reports'[r], i) = FeedbackAt(reports[r], i) ]_vars

C28_Witness ==
    /\ viewed # 0
    /\ feedbackCount(reports) < MaxFeedback
    /\ viewer.showCorrectionInput = Absent
    /\ reports[viewed].findings[1].feedback # Absent
    /\ reports[viewed].findings[2].feedback = Absent
    /\ reports[viewed].status = "REVIEW_REQUIRED"

\* a finding but for its feedback
WithoutFeedback(f) == [f EXCEPT !.feedback = Absent]

\* C29: a step that changes a report's status starts from a status other
\* than APPROVED and changes nothing else of the report; Approve is not
\* available on an approved report; a step that changes a report's findings
\* changes only feedback records (same status, same number of findings,
\* same order and ids, every other field of the report the same); PDF
\* export changes no report.
C29_UpdatesTouchOnlyTheirField ==
    /\ [] ( viewed # 0 =>
              /\ reports[viewed].status = "APPROVED" => ~ENABLED clickApprove
              /\ ~ENABLED (handleExportPDF /\ reports' # reports) )
    /\ [][ \A r \in 1..Len(reports) :
              /\ r <= Len(reports')
              /\ reports'[r].status # reports[r].status =>
                    /\ reports[r].status # "APPROVED"
                    /\ reports'[r] = [reports[r] EXCEPT !.status = "APPROVED"]
              /\ reports'[r].findings # reports[r].findings =>
                    /\ reports'[r] = [reports[r] EXCEPT !.findings = reports'[r].findings]
                    /\ Len(reports'[r].findings) = Len(reports[r].findings)
                    /\ \A i \in 1..Len(reports[r].findings) :
                          WithoutFeedback(reports'[r].findings[i])
                              = WithoutFeedback(reports[r].findings[i]) ]_vars

C29_Witness ==
    /\ route = "dashboard"
    /\ \E r \in 1..Len(reports) :
          /\ reports[r].status = "APPROVED"
          /\ \E i, j \in 1..Len(reports[r].findings) :
                /\ reports[r].findings[i].feedback # Absent
                /\ reports[r].findings[i].feedback[1].correction = Some("not a nodule")
                /\ reports[r].findings[j].feedback = Absent

----------------------------------------------------------------------------
(* Properties of the findings' explanations, on rawData and normalized *)

\* C27: for every region or artifact finding the localized explanation is
\* the payload's localized student summary and the English explanation is
\* its English student summary; when the respective summary is absent the
\* explanation is "Visual pattern detected." (the English explanation does
\* not fall back to the localized student summary).
C27_ExplanationFromStudentSummary ==
    normalized # Absent =>
        /\ Counted
        /\ \A i \in 1..Len(AllEntries) :
              /\ NonEmptyText(rawData.summary_student) =>
                    FindingOfEntry(i).explanation = rawData.summary_student
              /\ rawData.summary_student = Absent =>
                    FindingOfEntry(i).explanation = Some(VisualPatternDetected)
              /\ NonEmptyText(rawData.summary_student_en) =>
                    FindingOfEntry(i).explanationEn = rawData.summary_student_en
              /\ rawData.summary_student_en = Absent =>
                    FindingOfEntry(i).explanationEn = Some(VisualPatternDetected)

C27_Witness ==
    /\ normalized # Absent
    /\ Len(RegionEntries) = 1 /\ Len(ArtifactEntries) = 1
    /\ rawData.summary_student = Some("localized")
    /\ rawData.summary_student_en = Absent
    /\ FindingOfEntry(1).explanation = Some("localized")
    /\ FindingOfEntry(2).explanationEn = Some(VisualPatternDetected)

----------------------------------------------------------------------------
(* Properties of the stored key *)

\* C30: a stored key that is empty or blank counts as absent, getApiKey
\* then returns the window value, else the build-time value, else the empty
\* string; saving an empty or blank key in the Admin page removes the stored
\* key; after saving a non-blank key, getApiKey returns that key trimmed,
\* whatever the window and build-time values are.
C30_BlankKeyIsAbsent ==
    /\ [] ( ~LocalPresent =>
               getApiKey = IF WindowPresent THEN windowKey[1]
                           ELSE IF EnvPresent THEN envKey[1]
                           ELSE "" )
    /\ [][ \A input \in KeyInputs :
              handleSaveKey(input) =>
                  IF input \in {"", "  "}
                  THEN localKey' = Absent
                  ELSE localKey' = Some("k1") /\ getApiKey' = "k1" ]_vars

C30_Witness ==
    /\ localKey = Some("k1")
    /\ windowKey = Some("w1")
    /\ envKey = Some("e1")
    /\ returned # Absent
    /\ returned[1].outcome.result = Some("k1")

====
